---- MODULE Spec2Model ----
(***************************************************************************)
(* Model of the rcomp! macro of rustcomp (src/src/lib.rs).                 *)
(*                                                                         *)
(* Two stages are modelled.  Expansion: the four macro_rules arms rewrite  *)
(* the token stream of one rcomp! invocation, one arm per step, into a     *)
(* chain of flat_map closures ending in one filter_map closure, wrapped in *)
(* the collect calls the `$collect:path;` arm adds.  Evaluation: the       *)
(* iterator the expansion denotes is built and pulled, element by element, *)
(* by its consumer (the caller for the iterator form, collect otherwise).  *)
(*                                                                         *)
(* Patterns, expressions and paths are single opaque tokens, as the        *)
(* macro's pat, expr and path fragments are.                               *)
(***************************************************************************)
EXTENDS Integers, Sequences, FiniteSets, TLC

\* ------------------------------------------------------------------ bounds
\* Longest clause chain the inputs are drawn from.
MaxClauses == 2
\* Elements an unbounded range (0..) is followed for.
NatCap == 4

\* ------------------------------------------------------------------ tokens
PatNames == <<"a", "b", "c", "d">>
PatToks == {PatNames[i] : i \in DOMAIN PatNames}
PathToks == {"Vec", "HashSet", "HashMap"}
SourceExprs == {"lit", "empty", "upto", "nat"}
MapperExprs == {"last", "dbl", "sum", "pair"}
GuardExprs == {"even", "outerodd"}
ExprToks == SourceExprs \cup MapperExprs \cup GuardExprs

NoGuard == "<none>"
NoMatch == [ok |-> FALSE]

IsPat(t) == t \in PatToks
IsExpr(t) == t \in ExprToks
IsPath(t) == t \in PathToks

Tok(toks, i) == IF i >= 1 /\ i <= Len(toks) THEN toks[i] ELSE "<eof>"
Rest(toks, i) == SubSeq(toks, i, Len(toks))

\* `$($vars:pat),+` from token i: the index after the list, 0 when there is none.
RECURSIVE PatsEnd(_, _)
PatsEnd(toks, i) ==
    IF ~IsPat(Tok(toks, i)) THEN 0
    ELSE IF Tok(toks, i + 1) = "," /\ IsPat(Tok(toks, i + 2))
         THEN PatsEnd(toks, i + 2)
         ELSE i + 1

RECURSIVE PatsOf(_, _, _)
PatsOf(toks, i, end) ==
    IF i >= end THEN <<>> ELSE <<toks[i]>> \o PatsOf(toks, i + 2, end)

\* `$(, if $guard:expr)? $(,)?` against the tokens after the mapper.
MatchTail(r) ==
    IF r \in {<<>>, <<",">>} THEN [ok |-> TRUE, guard |-> NoGuard]
    ELSE IF Tok(r, 1) = "," /\ Tok(r, 2) = "if" /\ IsExpr(Tok(r, 3))
            /\ Rest(r, 4) \in {<<>>, <<",">>}
         THEN [ok |-> TRUE, guard |-> r[3]]
         ELSE NoMatch

\* A variant that takes a second expression after the mapper as the value of
\* a (key, value) pair.
MatchBasePairWrap(toks) ==
    LET p == PatsEnd(toks, 3) IN
    IF Tok(toks, 1) = "@" /\ Tok(toks, 2) = "__" /\ p # 0
       /\ Tok(toks, p) = "in" /\ IsExpr(Tok(toks, p + 1))
       /\ Tok(toks, p + 2) = "=>" /\ IsExpr(Tok(toks, p + 3))
    THEN LET two  == Tok(toks, p + 4) = "," /\ IsExpr(Tok(toks, p + 5))
             tail == MatchTail(Rest(toks, IF two THEN p + 6 ELSE p + 4))
         IN IF tail.ok
            THEN [ok |-> TRUE, vars |-> PatsOf(toks, 3, p), iter |-> toks[p + 1],
                  mapper |-> IF two THEN "pair" ELSE toks[p + 3],
                  guard |-> tail.guard]
            ELSE NoMatch
    ELSE NoMatch

\* Arm 1: (@__ $($vars:pat),+ in $iter:expr => $mapper:expr $(, if $guard:expr)? $(,)?)
MatchBase(toks) ==
    LET p == PatsEnd(toks, 3) IN
    IF Tok(toks, 1) = "@" /\ Tok(toks, 2) = "__" /\ p # 0
       /\ Tok(toks, p) = "in" /\ IsExpr(Tok(toks, p + 1))
       /\ Tok(toks, p + 2) = "=>" /\ IsExpr(Tok(toks, p + 3))
    THEN LET tail == MatchTail(Rest(toks, p + 4))
         IN IF tail.ok
            THEN [ok |-> TRUE, vars |-> PatsOf(toks, 3, p), iter |-> toks[p + 1],
                  mapper |-> toks[p + 3], guard |-> tail.guard]
            ELSE NoMatch
    ELSE NoMatch

\* Arm 2: (@__ $($vars:pat),+ in $iter:expr, $($recurse:tt)+)
MatchRecurse(toks) ==
    LET p == PatsEnd(toks, 3) IN
    IF Tok(toks, 1) = "@" /\ Tok(toks, 2) = "__" /\ p # 0
       /\ Tok(toks, p) = "in" /\ IsExpr(Tok(toks, p + 1))
       /\ Tok(toks, p + 2) = "," /\ Len(toks) >= p + 3
    THEN [ok |-> TRUE, vars |-> PatsOf(toks, 3, p), iter |-> toks[p + 1],
          recurse |-> Rest(toks, p + 3)]
    ELSE NoMatch

\* Arm 3: (for $($t:tt)*)
MatchFor(toks) ==
    IF Tok(toks, 1) = "for" THEN [ok |-> TRUE, t |-> Rest(toks, 2)] ELSE NoMatch

\* Arm 4 with `$collect:ident`: a path with generic arguments is no match.
MatchCollectIdent(toks) == NoMatch
\* Arm 4: ($collect:path; $($t:tt)*)
MatchCollect(toks) ==
    IF IsPath(Tok(toks, 1)) /\ Tok(toks, 2) = ";"
    THEN [ok |-> TRUE, collect |-> toks[1], t |-> Rest(toks, 3)]
    ELSE NoMatch

\* ------------------------------------------------------------------ inputs
\* The token stream of `rcomp![container; for a in s1, b in s2, .. => mapper, if guard]`.
RECURSIVE ClauseToks(_, _)
ClauseToks(srcs, i) ==
    IF i > Len(srcs) THEN <<>>
    ELSE (IF i = 1 THEN <<>> ELSE <<",">>)
         \o <<PatNames[i], "in", srcs[i]>>
         \o ClauseToks(srcs, i + 1)

RECURSIVE MapperToks(_)
MapperToks(ms) ==
    IF Len(ms) = 1 THEN ms ELSE <<Head(ms), ",">> \o MapperToks(Tail(ms))

Tokens(c) ==
    (IF c.container = "Lazy" THEN <<>> ELSE <<c.container, ";">>)
    \o <<"for">> \o ClauseToks(c.srcs, 1) \o <<"=>">> \o MapperToks(c.mapper)
    \o (IF c.guard = NoGuard THEN <<>> ELSE <<",", "if", c.guard>>)
    \o (IF c.trailing THEN <<",">> ELSE <<>>)

SeqsUpTo(S, n) == UNION {[1..k -> S] : k \in 1..n}

\* The first source has no binding in scope; an unbounded range is only the
\* outermost source.
SourcesOk(srcs) ==
    /\ srcs[1] # "upto"
    /\ \A i \in 2..Len(srcs) : srcs[i] # "nat"

\* The optional trailing comma is tried on the one-clause comprehensions.
TrailingOk(c) == c.trailing => Len(c.srcs) = 1

Inputs ==
    {c \in [container : {"Lazy"} \cup PathToks,
            srcs      : SeqsUpTo({"lit", "empty", "upto", "nat"}, MaxClauses),
            mapper    : {<<m>> : m \in MapperExprs} \cup {<<"last", "sum">>},
            guard     : {NoGuard} \cup GuardExprs,
            trailing  : BOOLEAN] : SourcesOk(c.srcs) /\ TrailingOk(c)}

\* ------------------------------------------------------------------- state
VARIABLES
    cfg,        \* the comprehension as written (never changes)
    phase,      \* "expand" | "error" | "expanded" | "run" | "done"
    inv,        \* tokens of the rcomp! invocation still to expand
    ops,        \* closures produced so far, outermost first
    collects,   \* collect::<..>() calls wrapped around the invocation
    its,        \* live iterators, outermost first
    env,        \* values bound by the closures entered, outermost first
    pc,         \* "idle" | "next": whether a next() call is in progress
    outputs,    \* items the pipeline has yielded, in order
    result,     \* what the comprehension expression evaluates to
    log         \* evaluation events, in order

vars == <<cfg, phase, inv, ops, collects, its, env, pc, outputs, result, log>>

NoResult == [kind |-> "none"]

Init ==
    /\ cfg \in Inputs
    /\ phase = "expand"
    /\ inv = Tokens(cfg)
    /\ ops = <<>>
    /\ collects = <<>>
    /\ its = <<>>
    /\ env = <<>>
    /\ pc = "idle"
    /\ outputs = <<>>
    /\ result = NoResult
    /\ log = <<>>

runVars == <<its, env, pc, outputs, result, log>>

\* --------------------------------------------------------------- expansion
FlatMapStep(m) == [op |-> "flat_map", vars |-> m.vars, iter |-> m.iter,
                   guard |-> NoGuard, mapper |-> NoGuard]
FilterMapStep(m) == [op |-> "filter_map", vars |-> m.vars, iter |-> m.iter,
                     guard |-> m.guard, mapper |-> m.mapper]

\* The closure of a later clause nested the wrong way round.
NestOutside(chain, step) == <<step>> \o chain
\* An expansion is substituted where its invocation stood: inside every
\* closure produced so far.
Nest(chain, step) == Append(chain, step)

\* Arm 4 dropping the collect call.
WrapCollectDropped(cs, path) == cs
\* `rcomp!(..).collect::<$collect>()`: the call wraps whatever the inner
\* invocation expands to.
WrapCollect(cs, path) == Append(cs, path)

ExpandCollect ==
    /\ phase = "expand"
    /\ MatchCollect(inv).ok
    /\ inv' = MatchCollect(inv).t
    /\ collects' = WrapCollect(collects, MatchCollect(inv).collect)
    /\ UNCHANGED <<cfg, phase, ops, runVars>>

ExpandFor ==
    /\ phase = "expand"
    /\ MatchFor(inv).ok
    /\ inv' = <<"@", "__">> \o MatchFor(inv).t
    /\ UNCHANGED <<cfg, phase, ops, collects, runVars>>

ExpandRecurse ==
    /\ phase = "expand"
    /\ ~MatchBase(inv).ok
    /\ MatchRecurse(inv).ok
    /\ ops' = Nest(ops, FlatMapStep(MatchRecurse(inv)))
    /\ inv' = <<"@", "__">> \o MatchRecurse(inv).recurse
    /\ UNCHANGED <<cfg, phase, collects, runVars>>

ExpandBase ==
    /\ phase = "expand"
    /\ MatchBase(inv).ok
    /\ ops' = Nest(ops, FilterMapStep(MatchBase(inv)))
    /\ inv' = <<>>
    /\ phase' = "expanded"
    /\ UNCHANGED <<cfg, collects, runVars>>

\* No arm matches: rustc reports "no rules expected this token" and the
\* compilation yields nothing.
ExpandFail ==
    /\ phase = "expand"
    /\ ~MatchBase(inv).ok /\ ~MatchRecurse(inv).ok
    /\ ~MatchFor(inv).ok /\ ~MatchCollect(inv).ok
    /\ phase' = "error"
    /\ inv' = <<>>
    /\ ops' = <<>>
    /\ collects' = <<>>
    /\ UNCHANGED <<cfg, runVars>>

\* -------------------------------------------------------------- evaluation
Last(e) == e[Len(e)]
Front(e) == SubSeq(e, 1, Len(e) - 1)

RECURSIVE Sum(_)
Sum(e) == IF e = <<>> THEN 0 ELSE Head(e) + Sum(Tail(e))

Lit == <<1, 2, 3>>

\* The source expressions, with the bindings e of the enclosing closures in
\* scope: &v for v = vec![1, 2, 3], &w for an empty w, 0..x for the nearest
\* binding x, and 0.. .
EvalSource(expr, e) ==
    CASE expr = "lit"   -> [elems |-> Lit, inf |-> FALSE]
      [] expr = "empty" -> [elems |-> <<>>, inf |-> FALSE]
      [] expr = "upto"  -> [elems |-> [i \in 1..Last(e) |-> i - 1], inf |-> FALSE]
      [] expr = "nat"   -> [elems |-> <<>>, inf |-> TRUE]

\* The guard expressions: x % 2 == 0 for the innermost binding, and
\* a % 2 == 1 for the outermost.
EvalGuard(g, e) ==
    CASE g = "even"     -> Last(e) % 2 = 0
      [] g = "outerodd" -> e[1] % 2 = 1

\* The mapper expressions: x, x * 2, the sum of all bindings, and the tuple
\* (x % 2, sum).
EvalMapper(m, e) ==
    CASE m = "last" -> Last(e)
      [] m = "dbl"  -> 2 * Last(e)
      [] m = "sum"  -> Sum(e)
      [] m = "pair" -> <<Last(e) % 2, Sum(e)>>

SrcEvent(d, e) == [ev |-> "src", lvl |-> d, env |-> e, val |-> <<>>]
PullEvent(d, x) == [ev |-> "pull", lvl |-> d, env |-> <<>>, val |-> <<x>>]
GuardEvent(d, e, b) ==
    [ev |-> "guard", lvl |-> d, env |-> e, val |-> <<IF b THEN 1 ELSE 0>>]
MapperEvent(d, e) == [ev |-> "mapper", lvl |-> d, env |-> e, val |-> <<>>]

\* The bindings of enclosing closures an expression of the last clause names.
OuterUsed(expr, n) ==
    CASE expr \in {"sum", "pair"} -> 1..(n - 1)
      [] expr = "outerodd"        -> {1} \ {n}
      [] OTHER                    -> {}

\* The closures are not `move`: one that names a binding of an enclosing
\* closure borrows it, and the iterator holding it leaves that closure.  The
\* borrow outlives the binding unless it goes through a reference the binding
\* holds (the elements of &v), so the elements of a range, bound by value, can
\* not be named further in.
BorrowChecks(chain) ==
    \A i \in OuterUsed(Last(chain).mapper, Len(chain))
             \cup OuterUsed(Last(chain).guard, Len(chain)) :
        chain[i].iter \notin {"upto", "nat"}

\* What rustc accepts of an expansion: closures of one parameter, at most one
\* collect call, (key, value) items for a HashMap, and borrows that hold.
TypeChecks(chain, cs) ==
    /\ \A i \in DOMAIN chain : Len(chain[i].vars) = 1
    /\ Len(cs) <= 1
    /\ cs = <<"HashMap">> => Last(chain).mapper = "pair"
    /\ BorrowChecks(chain)

\* An iterator that has already moved past its first element.
IntoIterAdvanced(expr, e) == [src |-> EvalSource(expr, e), pos |-> 1]
\* `$iter.into_iter()`
IntoIter(expr, e) == [src |-> EvalSource(expr, e), pos |-> 0]

HasNext(it) == it.src.inf \/ it.pos < Len(it.src.elems)
WithinCap(it) == it.src.inf => it.pos < NatCap
\* The element a reversed iterator would give.
CurFromBack(it) ==
    IF it.src.inf THEN it.pos ELSE it.src.elems[Len(it.src.elems) - it.pos]
\* The element the iterator's next() returns: sources are walked front to back.
Cur(it) == IF it.src.inf THEN it.pos ELSE it.src.elems[it.pos + 1]
Advance(it) == [it EXCEPT !.pos = @ + 1]
Top == its[Len(its)]

\* The closure with the guard applied to what the mapper returns.
FilterMapClosureGuardOnOutput(step, d, e) ==
    LET y == EvalMapper(step.mapper, e)
        b == IF step.mapper = "pair" THEN EvalGuard(step.guard, e)
             ELSE EvalGuard(step.guard, Front(e) \o <<y>>)
    IN IF step.guard = NoGuard
       THEN [events |-> <<MapperEvent(d, e)>>, out |-> <<y>>]
       ELSE [events |-> <<MapperEvent(d, e), GuardEvent(d, e, b)>>,
             out |-> IF b THEN <<y>> ELSE <<>>]

\* The closure mapping first and dropping the value when the guard fails.
FilterMapClosureMapFirst(step, d, e) ==
    IF step.guard = NoGuard
    THEN [events |-> <<MapperEvent(d, e)>>, out |-> <<EvalMapper(step.mapper, e)>>]
    ELSE [events |-> <<MapperEvent(d, e), GuardEvent(d, e, EvalGuard(step.guard, e))>>,
          out |-> IF EvalGuard(step.guard, e)
                  THEN <<EvalMapper(step.mapper, e)>> ELSE <<>>]

\* |$vars| { if $guard && true { Some($mapper) } else { None } }
\* called with e, the bindings of the enclosing closures and its own.
FilterMapClosure(step, d, e) ==
    IF step.guard = NoGuard
    THEN [events |-> <<MapperEvent(d, e)>>, out |-> <<EvalMapper(step.mapper, e)>>]
    ELSE IF EvalGuard(step.guard, e)
         THEN [events |-> <<GuardEvent(d, e, TRUE), MapperEvent(d, e)>>,
               out |-> <<EvalMapper(step.mapper, e)>>]
         ELSE [events |-> <<GuardEvent(d, e, FALSE)>>, out |-> <<>>]

\* The bindings in scope in a closure called with x: the closure is written
\* inside the closures of the clauses before it.
ClosureEnv(e, x) == Append(e, x)

EmptyOf(kind) ==
    CASE kind = "Vec"     -> [kind |-> kind, val |-> <<>>]
      [] kind = "HashSet" -> [kind |-> kind, val |-> {}]
      [] kind = "HashMap" -> [kind |-> kind, val |-> <<>>]

\* A map that keeps the value a key already has.
InsertKeepFirst(acc, item) ==
    CASE acc.kind = "Vec"     -> [acc EXCEPT !.val = Append(@, item)]
      [] acc.kind = "HashSet" -> [acc EXCEPT !.val = @ \cup {item}]
      [] acc.kind = "HashMap" ->
            [acc EXCEPT !.val = [k \in DOMAIN @ \cup {item[1]} |->
                                    IF k \in DOMAIN @ THEN @[k] ELSE item[2]]]

\* collect::<$collect>() takes each item as the iterator yields it: Vec
\* pushes, HashSet inserts, HashMap inserts and replaces the value of a key
\* it holds.
Insert(acc, item) ==
    CASE acc.kind = "Vec"     -> [acc EXCEPT !.val = Append(@, item)]
      [] acc.kind = "HashSet" -> [acc EXCEPT !.val = @ \cup {item}]
      [] acc.kind = "HashMap" ->
            [acc EXCEPT !.val = [k \in DOMAIN @ \cup {item[1]} |->
                                    IF k = item[1] THEN item[2] ELSE @[k]]]

\* The source expressions of every clause evaluated when the pipeline is built.
BuildEventsHoisted(chain) == [i \in DOMAIN chain |-> SrcEvent(i, <<>>)]
\* Building evaluates `$iter` of the first clause only: the later clauses'
\* sources stand inside closures that have not been called.
BuildEvents(chain) == <<SrcEvent(1, <<>>)>>

\* The expression is evaluated: the outermost source becomes an iterator and
\* the adaptors are stacked on it.  Nothing is pulled.
Build ==
    /\ phase = "expanded"
    /\ TypeChecks(ops, collects)
    /\ phase' = "run"
    /\ its' = <<IntoIter(ops[1].iter, <<>>)>>
    /\ log' = BuildEvents(ops)
    /\ result' = IF collects = <<>> THEN [kind |-> "Iterator"]
                 ELSE EmptyOf(collects[1])
    /\ UNCHANGED <<cfg, inv, ops, collects, env, pc, outputs>>

\* The consumer (the caller, or collect) asks for the next item.
CallNext ==
    /\ phase = "run"
    /\ pc = "idle"
    /\ pc' = "next"
    /\ UNCHANGED <<cfg, phase, inv, ops, collects, its, env, outputs, result, log>>

\* FlatMap::next with no inner iterator: the next element of this clause's
\* source is bound and the closure builds the inner iterator.
FlatMapPull ==
    /\ phase = "run" /\ pc = "next"
    /\ Len(its) < Len(ops)
    /\ HasNext(Top) /\ WithinCap(Top)
    /\ LET d == Len(its)
           x == Cur(Top)
           e == ClosureEnv(env, x)
       IN /\ its' = Append([its EXCEPT ![d] = Advance(@)],
                           IntoIter(ops[d + 1].iter, e))
          /\ env' = e
          /\ log' = log \o <<PullEvent(d, x), SrcEvent(d + 1, e)>>
    /\ UNCHANGED <<cfg, phase, inv, ops, collects, pc, outputs, result>>

\* FilterMap::next: the next element of the last clause's source goes through
\* the closure; Some(y) ends the next() call with y.
FilterMapPull ==
    /\ phase = "run" /\ pc = "next"
    /\ Len(its) = Len(ops)
    /\ HasNext(Top) /\ WithinCap(Top)
    /\ LET d == Len(its)
           x == Cur(Top)
           r == FilterMapClosure(ops[d], d, ClosureEnv(env, x))
       IN /\ its' = [its EXCEPT ![d] = Advance(@)]
          /\ log' = log \o <<PullEvent(d, x)>> \o r.events
          /\ IF r.out # <<>>
             THEN /\ outputs' = Append(outputs, r.out[1])
                  /\ result' = IF collects = <<>> THEN result
                               ELSE Insert(result, r.out[1])
                  /\ pc' = "idle"
             ELSE UNCHANGED <<outputs, result, pc>>
    /\ UNCHANGED <<cfg, phase, inv, ops, collects, env>>

\* An inner source is exhausted: FlatMap drops it and goes back to the
\* enclosing clause.
InnerExhausted ==
    /\ phase = "run" /\ pc = "next"
    /\ Len(its) > 1
    /\ ~HasNext(Top)
    /\ its' = Front(its)
    /\ env' = Front(env)
    /\ UNCHANGED <<cfg, phase, inv, ops, collects, pc, outputs, result, log>>

\* The outermost source is exhausted: next() returns None, and collect
\* returns its container.
OuterExhausted ==
    /\ phase = "run" /\ pc = "next"
    /\ Len(its) = 1
    /\ ~HasNext(Top)
    /\ phase' = "done"
    /\ pc' = "idle"
    /\ UNCHANGED <<cfg, inv, ops, collects, its, env, outputs, result, log>>

Next ==
    \/ ExpandCollect \/ ExpandFor \/ ExpandRecurse \/ ExpandBase \/ ExpandFail
    \/ Build \/ CallNext \/ FlatMapPull \/ FilterMapPull
    \/ InnerExhausted \/ OuterExhausted

Spec == Init /\ [][Next]_vars
\* -------------------------------------------------------------- references
IsPrefix(a, b) == Len(a) <= Len(b) /\ a = SubSeq(b, 1, Len(a))
N == Len(cfg.srcs)
Expanded == phase \in {"expanded", "run", "done"}
Running == phase \in {"run", "done"}

\* The elements a source gives; of an unbounded range, those within the cap.
SrcElems(expr, e) ==
    IF EvalSource(expr, e).inf THEN [j \in 1..NatCap |-> j - 1]
    ELSE EvalSource(expr, e).elems

RECURSIVE FilterSeq(_, _)
FilterSeq(g, S) ==
    IF S = <<>> THEN <<>>
    ELSE (IF g = NoGuard \/ EvalGuard(g, <<Head(S)>>) THEN <<Head(S)>> ELSE <<>>)
         \o FilterSeq(g, Tail(S))

RECURSIVE MapSeq(_, _)
MapSeq(m, S) ==
    IF S = <<>> THEN <<>> ELSE <<EvalMapper(m, <<Head(S)>>)>> \o MapSeq(m, Tail(S))

\* The loops of the crate documentation:
\*   for a in s1 { for b in s2 { if guard { it.push(mapper) } } }
\* from the k-th element of clause i's source, with e bound outside.
RECURSIVE LoopFrom(_, _, _, _)
LoopFrom(c, i, e, k) ==
    LET S == SrcElems(c.srcs[i], e) IN
    IF k > Len(S) THEN <<>>
    ELSE LET e2 == Append(e, S[k])
             body == IF i < Len(c.srcs) THEN LoopFrom(c, i + 1, e2, 1)
                     ELSE IF c.guard = NoGuard \/ EvalGuard(c.guard, e2)
                          THEN <<EvalMapper(c.mapper[1], e2)>>
                          ELSE <<>>
         IN body \o LoopFrom(c, i, e, k + 1)

NestedLoops(c) == LoopFrom(c, 1, <<>>, 1)

\* ------------------------------------------------------------------ claims

\* C1: a single-clause comprehension over a finite source S with guard g and
\* mapper m yields map(m, filter(g, S)): what it has yielded so far is a
\* prefix of it, and all of it once the source is exhausted.  The guard is put
\* to the source's element.
C1_FilterBeforeMap ==
    (N = 1 /\ Len(cfg.mapper) = 1 /\ Running) =>
        LET S == SrcElems(cfg.srcs[1], <<>>)
            expected == MapSeq(cfg.mapper[1], FilterSeq(cfg.guard, S))
        IN /\ IsPrefix(outputs, expected)
           /\ phase = "done" => outputs = expected
           /\ \A i \in DOMAIN log :
                 log[i].ev = "guard" =>
                     /\ i > 1 /\ log[i - 1].ev = "pull"
                     /\ log[i].env = log[i - 1].val

\* filter(g, map(m, S)) for [1, 2, 3], x % 2 == 0 and x * 2 is [2, 4, 6];
\* the comprehension gives [4].
C1_Witness ==
    /\ phase = "done"
    /\ cfg.srcs = <<"lit">> /\ cfg.guard = "even" /\ cfg.mapper = <<"dbl">>
    /\ outputs = <<4>>
    /\ FilterSeq("even", MapSeq("dbl", Lit)) = <<2, 4, 6>>

\* C2: a comprehension of two or more clauses yields, in the same order, what
\* the nested loops (first clause outermost) push: a prefix of it at any time,
\* all of it once the outermost source is exhausted.
C2_FlattenOrder ==
    (N >= 2 /\ Len(cfg.mapper) = 1 /\ Running) =>
        LET pushed == NestedLoops(cfg) IN
        /\ IsPrefix(outputs, pushed)
        /\ phase = "done" => outputs = pushed

C2_Witness ==
    /\ phase = "done"
    /\ cfg.srcs = <<"lit", "upto">> /\ cfg.guard = NoGuard /\ cfg.mapper = <<"sum">>
    /\ outputs = <<1, 2, 3, 3, 4, 5>>
\* The expansion of the same clause chain written without a collection type.
RECURSIVE ChainOf(_)
ChainOf(toks) ==
    IF MatchBase(toks).ok THEN <<FilterMapStep(MatchBase(toks))>>
    ELSE IF MatchRecurse(toks).ok
         THEN <<FlatMapStep(MatchRecurse(toks))>>
              \o ChainOf(<<"@", "__">> \o MatchRecurse(toks).recurse)
         ELSE <<>>

LazyExpansion(c) ==
    ChainOf(<<"@", "__">> \o Rest(Tokens([c EXCEPT !.container = "Lazy"]), 2))

\* The map holding, for each key, the value of the last pair with that key.
LastWins(S) ==
    [k \in {S[i][1] : i \in DOMAIN S} |->
        S[CHOOSE i \in DOMAIN S :
              /\ S[i][1] = k
              /\ \A j \in DOMAIN S : S[j][1] = k => j <= i][2]]

\* A sequence collected into a container of the kind.
CollectOf(kind, S) ==
    CASE kind = "Vec"     -> [kind |-> kind, val |-> S]
      [] kind = "HashSet" -> [kind |-> kind, val |-> {S[i] : i \in DOMAIN S}]
      [] kind = "HashMap" -> [kind |-> kind, val |-> LastWins(S)]

\* C3: without a collection type the comprehension is the iterator itself;
\* with a collection type C the expansion is that of the same clause chain
\* written without one, followed by one collect into C, and its value is what
\* collecting the items of that iterator into C gives.
C3_CollectOfLazy ==
    Len(cfg.mapper) = 1 =>
        /\ (cfg.container = "Lazy" /\ Expanded) =>
               collects = <<>> /\ ops = LazyExpansion(cfg)
        /\ (cfg.container = "Lazy" /\ Running) => result = [kind |-> "Iterator"]
        /\ (cfg.container # "Lazy" /\ Expanded) =>
               collects = <<cfg.container>> /\ ops = LazyExpansion(cfg)
        /\ (cfg.container # "Lazy" /\ phase = "done") =>
               /\ outputs = NestedLoops(cfg)
               /\ result = CollectOf(cfg.container, outputs)

C3_Witness ==
    /\ phase = "done"
    /\ cfg.container = "HashSet" /\ cfg.srcs = <<"lit", "lit">>
    /\ cfg.mapper = <<"last">> /\ cfg.guard = NoGuard
    /\ Len(outputs) = 9
    /\ result = [kind |-> "HashSet", val |-> {1, 2, 3}]

\* C4: a comprehension collected into a HashMap holds exactly the keys of the
\* pairs the pipeline yielded and, for each key, the value of the last pair
\* yielded with that key; the pipeline yields in nested-loop order.
C4_MappingLastWriteWins ==
    (cfg.container = "HashMap" /\ Running) =>
        /\ result.kind = "HashMap"
        /\ DOMAIN result.val = {outputs[i][1] : i \in DOMAIN outputs}
        /\ \A i \in DOMAIN outputs :
              (\A j \in DOMAIN outputs : j > i => outputs[j][1] # outputs[i][1])
                  => result.val[outputs[i][1]] = outputs[i][2]
        /\ phase = "done" => outputs = NestedLoops(cfg)

\* [1, 2, 3] with (x % 2, x) yields (1, 1), (0, 2), (1, 3): key 1 twice.
C4_Witness ==
    /\ phase = "done"
    /\ cfg.container = "HashMap" /\ cfg.srcs = <<"lit">> /\ cfg.guard = NoGuard
    /\ outputs = <<<<1, 1>>, <<0, 2>>, <<1, 3>>>>
    /\ result.val[1] = 3 /\ result.val[0] = 2

AtLastClause == phase = "expand" /\ Tok(inv, 1) = "@" /\ ~MatchRecurse(inv).ok

\* C5: a comprehension with the two-expression mapper `=> k, v` and a
\* collection type other than HashMap (Vec, HashSet, none) does not expand: at
\* its last clause no arm matches, the expansion ends in an error, no
\* filter_map step or pair mapper is ever produced and nothing is evaluated.
C5_ArityRejection ==
    (Len(cfg.mapper) = 2 /\ cfg.container # "HashMap") =>
        /\ phase \in {"expand", "error"}
        /\ AtLastClause => ~MatchBase(inv).ok
        /\ \A i \in DOMAIN ops : ops[i].op = "flat_map" /\ ops[i].mapper = NoGuard
        /\ phase = "error" => ops = <<>> /\ collects = <<>>
        /\ its = <<>> /\ outputs = <<>> /\ result = NoResult /\ log = <<>>

C5_Witness ==
    /\ phase = "error"
    /\ Len(cfg.mapper) = 2 /\ cfg.container = "Vec" /\ N = 2

\* C6 as stated, for the single-expression mappers rustc accepts as items of a
\* HashMap (a tuple expression): the comprehension never expands, and no map
\* is produced.
C6_Original ==
    (cfg.container = "HashMap" /\ cfg.mapper = <<"pair">>) =>
        /\ phase \in {"expand", "error"}
        /\ result.kind # "HashMap"

\* C6 amended: a comprehension collected into a HashMap with a
\* single-expression mapper expands (some arm matches at every step), to the
\* pipeline with that expression as its mapper followed by collect into the
\* HashMap, and when the expression is a pair the map is built from the pairs;
\* the two-expression mapper is what does not expand, HashMap included.
C6_MappingSingleMapper ==
    cfg.container = "HashMap" =>
        /\ Len(cfg.mapper) = 1 =>
              /\ phase # "error"
              /\ phase = "expand" =>
                    \/ MatchBase(inv).ok \/ MatchRecurse(inv).ok
                    \/ MatchFor(inv).ok \/ MatchCollect(inv).ok
              /\ Expanded =>
                    /\ collects = <<"HashMap">>
                    /\ Last(ops).op = "filter_map"
                    /\ Last(ops).mapper = cfg.mapper[1]
              /\ Running => cfg.mapper = <<"pair">>
              /\ phase = "done" => result = CollectOf("HashMap", outputs)
        /\ Len(cfg.mapper) = 2 => phase \in {"expand", "error"}

C6_Witness ==
    /\ phase = "done"
    /\ cfg.container = "HashMap" /\ cfg.mapper = <<"pair">>
    /\ cfg.srcs = <<"lit">> /\ cfg.guard = "even"
    /\ result = [kind |-> "HashMap", val |-> [k \in {0} |-> 2]]

\* C7: when the outermost source is empty nothing is yielded, no element is
\* pulled, no guard or mapper is evaluated and no inner source expression is
\* evaluated (the only event is the evaluation of the outermost source), and
\* the result is the empty container, or the iterator that gave nothing.
C7_EmptyOuterShortCircuit ==
    (cfg.srcs[1] = "empty" /\ Len(cfg.mapper) = 1) =>
        /\ outputs = <<>>
        /\ \A i \in DOMAIN log : log[i] = SrcEvent(1, <<>>)
        /\ Len(log) <= 1
        /\ Running => Len(its) = 1 /\ its[1].pos = 0 /\ env = <<>>
        /\ phase = "done" =>
              result = IF cfg.container = "Lazy" THEN [kind |-> "Iterator"]
                       ELSE EmptyOf(cfg.container)

C7_Witness ==
    /\ phase = "done"
    /\ cfg.srcs = <<"empty", "lit">> /\ cfg.container = "Vec"
    /\ cfg.guard = "even" /\ cfg.mapper = <<"dbl">>
    /\ result = [kind |-> "Vec", val |-> <<>>]
Ev(i) == IF i >= 1 /\ i <= Len(log) THEN log[i].ev ELSE "<end>"
LeafPull(i) == Ev(i) = "pull" /\ log[i].lvl = N
Count(kind) == Cardinality({i \in DOMAIN log : log[i].ev = kind})

\* C8: for every element pulled from the last clause's source, a guard, when
\* written, is evaluated exactly once, at once and so before the mapper; the
\* mapper is evaluated at most once, and only directly after a guard that
\* held, or after the pull when no guard is written; after a guard that failed
\* no mapper is evaluated, and every output is one mapper evaluation.
C8_GuardBeforeMapper ==
    (Len(cfg.mapper) = 1 /\ Running) =>
        /\ \A i \in DOMAIN log :
              /\ (LeafPull(i) /\ cfg.guard # NoGuard) =>
                    /\ Ev(i + 1) = "guard"
                    /\ Last(log[i + 1].env) = log[i].val[1]
                    /\ Ev(i + 2) \notin {"guard"}
                    /\ Ev(i + 2) = "mapper" <=> log[i + 1].val = <<1>>
                    /\ Ev(i + 2) = "mapper" =>
                          /\ log[i + 2].env = log[i + 1].env
                          /\ Ev(i + 3) \notin {"guard", "mapper"}
              /\ (LeafPull(i) /\ cfg.guard = NoGuard) =>
                    /\ Ev(i + 1) = "mapper"
                    /\ Last(log[i + 1].env) = log[i].val[1]
                    /\ Ev(i + 2) \notin {"guard", "mapper"}
              /\ Ev(i) = "guard" =>
                    /\ cfg.guard # NoGuard
                    /\ LeafPull(i - 1)
                    /\ log[i].val = <<IF EvalGuard(cfg.guard, log[i].env) THEN 1 ELSE 0>>
              /\ Ev(i) = "mapper" =>
                    IF cfg.guard = NoGuard THEN LeafPull(i - 1)
                    ELSE Ev(i - 1) = "guard" /\ log[i - 1].val = <<1>>
        /\ Len(outputs) = Count("mapper")
        /\ Count("mapper") <= Count("pull")

\* Six elements reach the guard; it fails for two of them and four are mapped.
C8_Witness ==
    /\ phase = "done"
    /\ cfg.guard = "even" /\ N = 2 /\ cfg.srcs = <<"lit", "upto">>
    /\ Count("guard") = 6 /\ Count("mapper") = 4 /\ Len(outputs) = 4

\* The value the closure of clause d was last called with before event i.
RECURSIVE BoundBefore(_, _)
BoundBefore(i, d) ==
    IF log[i - 1].ev = "pull" /\ log[i - 1].lvl = d THEN log[i - 1].val[1]
    ELSE BoundBefore(i - 1, d)

\* C9: a chain of n clauses expands to n - 1 flat_map steps, one per
\* non-final clause in written order and carrying neither guard nor mapper,
\* then one filter_map step on the last clause carrying both; the guard and
\* the mapper are evaluated only there, with the current bindings of all n
\* clauses in scope.
C9_ChainShape ==
    Len(cfg.mapper) = 1 =>
        /\ phase = "expand" =>
              /\ Len(ops) < N
              /\ \A i \in DOMAIN ops :
                    ops[i] = [op |-> "flat_map", vars |-> <<PatNames[i]>>,
                              iter |-> cfg.srcs[i], guard |-> NoGuard,
                              mapper |-> NoGuard]
        /\ Expanded =>
              /\ Len(ops) = N
              /\ \A i \in 1..(N - 1) :
                    ops[i] = [op |-> "flat_map", vars |-> <<PatNames[i]>>,
                              iter |-> cfg.srcs[i], guard |-> NoGuard,
                              mapper |-> NoGuard]
              /\ ops[N] = [op |-> "filter_map", vars |-> <<PatNames[N]>>,
                           iter |-> cfg.srcs[N], guard |-> cfg.guard,
                           mapper |-> cfg.mapper[1]]
        /\ \A i \in DOMAIN log :
              log[i].ev \in {"guard", "mapper"} =>
                  /\ log[i].lvl = N
                  /\ log[i].env = [d \in 1..N |-> BoundBefore(i, d)]

\* The guard a % 2 == 1 names the outer clause's binding and the mapper sums
\* both: with [1, 2, 3] twice, the rows of 1 and 3 pass.
C9_Witness ==
    /\ phase = "done"
    /\ N = 2 /\ cfg.srcs = <<"lit", "lit">>
    /\ cfg.guard = "outerodd" /\ cfg.mapper = <<"sum">>
    /\ outputs = <<2, 3, 4, 4, 5, 6>>
    /\ Len(ops) = 2 /\ ops[1].op = "flat_map" /\ ops[2].op = "filter_map"

\* The events of the nested loops, from the k-th element of clause i's source.
RECURSIVE LoopEvents(_, _, _, _)
LoopEvents(c, i, e, k) ==
    LET S == SrcElems(c.srcs[i], e) IN
    IF k > Len(S) THEN <<>>
    ELSE LET e2 == Append(e, S[k])
             pass == c.guard = NoGuard \/ EvalGuard(c.guard, e2)
             body == IF i < Len(c.srcs)
                     THEN <<SrcEvent(i + 1, e2)>> \o LoopEvents(c, i + 1, e2, 1)
                     ELSE (IF c.guard = NoGuard THEN <<>>
                           ELSE <<GuardEvent(i, e2, pass)>>)
                          \o (IF pass THEN <<MapperEvent(i, e2)>> ELSE <<>>)
         IN <<PullEvent(i, S[k])>> \o body \o LoopEvents(c, i, e, k + 1)

RefLog(c) == <<SrcEvent(1, <<>>)>> \o LoopEvents(c, 1, <<>>, 1)

\* The index in L of its k-th mapper event, from index i on.
RECURSIVE KthMapper(_, _, _)
KthMapper(L, i, k) ==
    IF i > Len(L) THEN 0
    ELSE IF L[i].ev = "mapper"
         THEN (IF k = 1 THEN i ELSE KthMapper(L, i + 1, k - 1))
         ELSE KthMapper(L, i + 1, k)

\* C10: building the iterator evaluates the outermost source expression and
\* nothing else; at any time the elements pulled and the guards and mappers
\* evaluated are an initial part of what the nested loops do, and when the
\* consumer holds k outputs and has not asked for more it is exactly the part
\* up to and including the mapper evaluation that produced the k-th: each
\* output costs finitely many steps, also over the unbounded range.
C10_OnDemand ==
    (Len(cfg.mapper) = 1 /\ Running) =>
        LET ref == RefLog(cfg) IN
        /\ IsPrefix(log, ref)
        /\ (phase = "run" /\ pc = "idle") =>
              log = IF outputs = <<>> THEN <<SrcEvent(1, <<>>)>>
                    ELSE SubSeq(ref, 1, KthMapper(ref, 1, Len(outputs)))

\* Two outputs pulled from `for a in 0.., b in 0..a => b * 2, if b % 2 == 0`:
\* b = 0 under a = 1 and under a = 2; the range has been followed to 2 only.
C10_Witness ==
    /\ phase = "run" /\ pc = "idle"
    /\ cfg.container = "Lazy" /\ cfg.srcs = <<"nat", "upto">>
    /\ cfg.guard = "even" /\ cfg.mapper = <<"dbl">>
    /\ outputs = <<0, 0>>
    /\ its[1].pos = 3 /\ its[2].pos = 1
====
